---- MODULE Spec2Model ----
(***************************************************************************)
(* Model of the comment ingestion pipeline:                                *)
(*   - src/src/process_comments.py : the Kafka consumer that upserts each  *)
(*     message into the DuckDB table and commits storage and offsets in    *)
(*     batches (SpecConsumer);                                             *)
(*   - src/src/fetch_comments.py : the paginated fetcher and the snapshot  *)
(*     merge of CommentFetcher (SpecProducer, SpecSave);                   *)
(*   - src/src/sentiment_analysis.py : the enrichment run over the table   *)
(*     (SpecUpsert).                                                       *)
(***************************************************************************)
EXTENDS Integers, Sequences, FiniteSets, TLC

\* ---------------------------------------------------------------- bounds
MaxLog == 3          \* messages in the raw_comments log
batch_size == 2      \* process_comments.py:193 sets 100; scaled down

NULL == "NULL"

\* The comment ids of the model, and the versions (counter refreshes) in which
\* one comment can appear in the log.
CommentIds == {1, 2}
Versions == {1, 2}

\* ------------------------------------------------------- consumer: data
\* The raw text of version v of a comment, as a sequence of characters.
TextOf(v) ==
    CASE v = 1 -> <<" ", "a">>
      [] v = 2 -> <<"a", " ", " ", "b">>
      [] OTHER -> <<>>

\* The video a comment belongs to: one video per comment id of the model.
VideoOf(id) == id

\* A decodable message: the JSON object send_to_kafka serialised. A later
\* version of a comment has other counters, an edited text and a renamed
\* author.
CommentMsg(id, v) ==
    [kind |-> "ok", comment_id |-> id, video_id |-> VideoOf(id),
     author |-> 30 + v, text |-> TextOf(v),
     like_count |-> v, reply_count |-> 10 + v, updated_at |-> 20 + v]

\* A message whose payload json.loads cannot decode.
BadMsg == [kind |-> "bad"]

OkMsgs == {CommentMsg(id, v) : id \in CommentIds, v \in Versions}
Msgs == OkMsgs \cup {BadMsg}

RECURSIVE SeqsUpTo(_, _)
SeqsUpTo(S, n) ==
    IF n = 0 THEN {<<>>}
    ELSE LET shorter == SeqsUpTo(S, n - 1)
         IN shorter \cup {Append(s, x) : s \in {t \in shorter : Len(t) = n - 1}, x \in S}

\* text.strip() followed by ' '.join(text.split()): leading and trailing
\* blanks go, every run of blanks becomes one blank.
RECURSIVE SplitWords(_, _, _)
SplitWords(s, cur, acc) ==
    IF s = <<>> THEN (IF cur = <<>> THEN acc ELSE Append(acc, cur))
    ELSE IF Head(s) = " "
         THEN SplitWords(Tail(s), <<>>, IF cur = <<>> THEN acc ELSE Append(acc, cur))
         ELSE SplitWords(Tail(s), Append(cur, Head(s)), acc)

RECURSIVE JoinWords(_)
JoinWords(ws) ==
    IF ws = <<>> THEN <<>>
    ELSE IF Len(ws) = 1 THEN Head(ws)
    ELSE Head(ws) \o <<" ">> \o JoinWords(Tail(ws))

clean_text(text) ==
    IF text = <<>> THEN <<>> ELSE JoinWords(SplitWords(text, <<>>, <<>>))

\* The row INSERT creates: the sentiment columns are not in the column list
\* and stay NULL.
NewRow(m) ==
    [comment_id |-> m.comment_id, video_id |-> m.video_id,
     author |-> m.author, text |-> clean_text(m.text),
     like_count |-> m.like_count, reply_count |-> m.reply_count,
     updated_at |-> m.updated_at,
     sentiment_label |-> NULL, sentiment_score |-> NULL, phrases |-> NULL]

\* ON CONFLICT (comment_id) DO UPDATE SET like_count, reply_count, updated_at.
ConflictUpdate(r, m) ==
    [r EXCEPT !.like_count = m.like_count,
              !.reply_count = m.reply_count,
              !.updated_at = m.updated_at]

\* A plausible slip: the conflicting row is replaced by the incoming one.
UpsertReplacing(t, m) ==
    {r \in t : r.comment_id # m.comment_id} \cup {NewRow(m)}

\* The INSERT ... ON CONFLICT statement of insert_comment on table t.
Upsert(t, m) ==
    IF \E r \in t : r.comment_id = m.comment_id
    THEN {IF r.comment_id = m.comment_id THEN ConflictUpdate(r, m) ELSE r : r \in t}
    ELSE t \cup {NewRow(m)}

\* A plausible slip: offsets are committed before the storage commit.
CommitSequenceSwapped == <<"kafka", "db">>

\* The order of the two commits of a batch: conn.commit(), consumer.commit().
CommitSequence == <<"db", "kafka">>

\* ------------------------------------------------------- producer: data
MaxPages == 5        \* pages the remote source holds for one fetch
MaxPageLen == 2      \* items on one page (maxResults is 100; scaled down)
MaxItems == 2        \* items on all pages of one fetch together
MaxRuns == 2         \* producer runs over the video
MAX_EMPTY_PAGES == 3

\* publishedAt of the remote comment id: comment 1 is younger than the others,
\* which share one timestamp.
PubOf(id) == IF id = 1 THEN 2 ELSE 1

\* comment_data as fetch_video_comments builds it from an API item; the
\* counters the remote source reports in run r are r.
CommentData(id, r) ==
    [comment_id |-> id, published_at |-> PubOf(id), like_count |-> r]

\* One page of a commentThreads().list response: its item ids.
Pages == SeqsUpTo(CommentIds, MaxPageLen)

\* The page sequences of at most n pages holding at most b items.
RECURSIVE RemotesOf(_, _)
RemotesOf(n, b) ==
    IF n = 0 THEN {<<>>}
    ELSE {<<>>} \cup
         UNION {{<<pg>> \o r : r \in RemotesOf(n - 1, b - Len(pg))} :
                pg \in {q \in Pages : Len(q) <= b}}

\* What the remote source can hold for a fetch: at least one response.
Remotes == RemotesOf(MaxPages, MaxItems) \ {<<>>}

RECURSIVE Flatten(_)
Flatten(pages) ==
    IF pages = <<>> THEN <<>> ELSE Head(pages) \o Flatten(Tail(pages))

IdsOf(cs) == {cs[i].comment_id : i \in 1..Len(cs)}

\* A plausible slip: nothing is recognised as a duplicate.
IsDuplicateNever(id, existing) == FALSE

\* if comment_data['comment_id'] in existing_ids
IsDuplicate(id, existing) == id \in existing

\* A plausible slip: break instead of continue at the first duplicate.
RECURSIVE PageCommentsBreaking(_, _, _)
PageCommentsBreaking(items, existing, r) ==
    IF items = <<>> THEN <<>>
    ELSE IF IsDuplicate(Head(items), existing) THEN <<>>
    ELSE <<CommentData(Head(items), r)>> \o PageCommentsBreaking(Tail(items), existing, r)

\* The for loop over comments_response['items']: page_comments.
RECURSIVE PageComments(_, _, _)
PageComments(items, existing, r) ==
    IF items = <<>> THEN <<>>
    ELSE IF IsDuplicate(Head(items), existing)
         THEN PageComments(Tail(items), existing, r)
         ELSE <<CommentData(Head(items), r)>> \o PageComments(Tail(items), existing, r)

\* A plausible slip: every fetch is treated as incremental.
IsIncrementalAlways(existing) == TRUE

\* is_incremental = len(existing_ids) > 0
IsIncremental(existing) == Cardinality(existing) > 0

\* A plausible slip: > instead of >=.
EarlyStopLate(incremental, count) ==
    incremental /\ count > MAX_EMPTY_PAGES

\* if consecutive_empty_pages >= MAX_EMPTY_PAGES: break (incremental mode)
EarlyStop(incremental, count) ==
    incremental /\ count >= MAX_EMPTY_PAGES

\* One iteration of the paging loop on a response with the given items and
\* next-page token: lines 178-222. st holds the locals new_comments,
\* consecutive_empty_pages and page_num, and how the loop ended ("none" while
\* it goes on).
ProcessPage(st, items, hasToken, existing, incremental, r) ==
    LET page_comments == PageComments(items, existing, r)
        count == IF incremental
                 THEN (IF page_comments = <<>>
                       THEN st.consecutive_empty_pages + 1 ELSE 0)
                 ELSE st.consecutive_empty_pages
        early == page_comments = <<>> /\ EarlyStop(incremental, count)
    IN [new_comments |-> st.new_comments \o page_comments,
        consecutive_empty_pages |-> count,
        page_num |-> st.page_num + 1,
        ended |-> IF early THEN "earlyStop"
                  ELSE IF ~hasToken THEN "noToken" ELSE "none"]

\* The paging loop run to its end on the pages of a remote source that raises
\* no error, without shutdown.
RECURSIVE FetchFrom(_, _, _, _, _)
FetchFrom(st, pages, existing, incremental, r) ==
    IF st.ended # "none" \/ st.page_num >= Len(pages) THEN st
    ELSE FetchFrom(ProcessPage(st, pages[st.page_num + 1],
                               st.page_num + 1 < Len(pages),
                               existing, incremental, r),
                   pages, existing, incremental, r)

RunFetch(pages, existing, r) ==
    FetchFrom([new_comments |-> <<>>, consecutive_empty_pages |-> 0,
               page_num |-> 0, ended |-> "none"],
              pages, existing, IsIncremental(existing), r)

\* The statuses an HttpError of a page request carries: 403 (quota exceeded or
\* comments disabled) and another one.
HttpStatuses == {403, 500}

\* A plausible slip: the call returns without producing.
send_to_kafkaSkipping(enabled, raises, id) ==
    [keys |-> <<>>, raised |-> FALSE]

\* A plausible slip: the exception of produce is not caught.
send_to_kafkaRaising(enabled, raises, id) ==
    [keys |-> IF enabled THEN <<id>> ELSE <<>>, raised |-> enabled /\ raises]

\* send_to_kafka: returns at once when publishing is disabled or there is no
\* producer; otherwise makes one produce call keyed by comment_id, and logs
\* and swallows the exception when the call raises. keys are the keys of the
\* produce calls made, raised whether an exception leaves the method.
send_to_kafka(enabled, raises, id) ==
    [keys |-> IF enabled THEN <<id>> ELSE <<>>, raised |-> FALSE]

\* send_to_kafka for the new comments of a page in turn, up to the first call
\* an exception leaves: the produce keys, the number of calls made, and
\* whether an exception left one.
RECURSIVE PublishAll(_, _, _)
PublishAll(ids, enabled, raises) ==
    IF ids = <<>> THEN [keys |-> <<>>, calls |-> 0, raised |-> FALSE]
    ELSE LET one == send_to_kafka(enabled, raises, Head(ids))
             rest == PublishAll(Tail(ids), enabled, raises)
         IN IF one.raised
            THEN [keys |-> one.keys, calls |-> 1, raised |-> TRUE]
            ELSE [keys |-> one.keys \o rest.keys, calls |-> 1 + rest.calls,
                  raised |-> rest.raised]

\* A plausible slip: the first occurrence of an id is kept.
RECURSIVE DictValuesFirstWins(_, _)
DictValuesFirstWins(cs, acc) ==
    IF cs = <<>> THEN acc
    ELSE LET c == Head(cs)
         IN DictValuesFirstWins(Tail(cs),
                IF \E j \in 1..Len(acc) : acc[j].comment_id = c.comment_id
                THEN acc ELSE Append(acc, c))

\* {c['comment_id']: c for c in all_comments}.values(): one entry per id, at
\* the place of the id's first occurrence, holding its last occurrence.
RECURSIVE DictValues(_, _)
DictValues(cs, acc) ==
    IF cs = <<>> THEN acc
    ELSE LET c == Head(cs)
         IN DictValues(Tail(cs),
                IF \E j \in 1..Len(acc) : acc[j].comment_id = c.comment_id
                THEN [j \in 1..Len(acc) |->
                        IF acc[j].comment_id = c.comment_id THEN c ELSE acc[j]]
                ELSE Append(acc, c))

\* sorted(..., key=lambda x: x['published_at']): a stable sort.
RECURSIVE SortByPublished(_)
SortByPublished(cs) ==
    IF cs = <<>> THEN <<>>
    ELSE LET sorted == SortByPublished(SubSeq(cs, 1, Len(cs) - 1))
             c == cs[Len(cs)]
             k == Cardinality({j \in 1..Len(sorted) :
                                 sorted[j].published_at <= c.published_at})
         IN SubSeq(sorted, 1, k) \o <<c>> \o SubSeq(sorted, k + 1, Len(sorted))

\* final_comments of save_comments for the snapshot file f and new_comments:
\* the merge when the file loads, the except branch when it does not, the
\* else branch when there is no file.
FinalComments(f, new) ==
    CASE f.state = "ok" -> SortByPublished(DictValues(f.comments \o new, <<>>))
      [] f.state = "corrupt" -> new
      [] OTHER -> SortByPublished(new)

\* get_existing_comments: the id set of the snapshot; empty when there is no
\* file or the file does not load.
ExistingIds(f) == IF f.state = "ok" THEN IdsOf(f.comments) ELSE {}

\* ------------------------------------------------------ consumer: state
VARIABLES
    log,          \* the raw_comments topic (one partition), fixed per behaviour
    pos,          \* consumer position: messages polled so far
    committed,    \* the group's committed offset
    table,        \* the comments table as the open connection sees it
    durable,      \* the comments table on disk
    autocommit,   \* whether each statement is durable without conn.commit()
    batch,        \* the list batch of consume_from_kafka
    running,      \* the global flag running
    cpc,          \* where the consumer process is
    site,         \* which of the three commit blocks is (or was last) executing
    ci,           \* index into CommitSequence of the next commit call
    okOffsets,    \* offsets whose upsert succeeded on the open connection
    durOffsets,   \* offsets whose upsert is on disk
    dbCommitted,  \* conn.commit() returned for the present batch
    crashedBetween, \* a crash fell between conn.commit() and consumer.commit()
    \* ---- producer
    file,         \* the snapshot file data/raw/<video_id>.json
    remote,       \* the pages the remote source holds during the present run
    run,          \* producer runs started so far
    fpc,          \* where the producer is
    existing_ids, \* the existing-ID set passed to fetch_video_comments
    is_incremental,
    new_comments,
    page_num,     \* page requests issued by the present fetch
    consecutive_empty_pages,
    shutdown_flag,
    result,       \* what fetch_video_comments returned, and how its loop ended
    newPerPage,   \* per answered page request of the present fetch, the number
                  \* of comments it added to new_comments
    sendCalls,    \* the comment ids passed to send_to_kafka by the present fetch
    enable_kafka, \* self.enable_kafka with a producer object at hand
    produce_raises, \* kafka_producer.produce raises during the present fetch
    produceCalls, \* the keys of the produce calls of the present fetch
    pacing,       \* per page request of the present fetch, whether the
                  \* iteration ended in time.sleep(0.5)
    flushes       \* kafka_producer.flush calls of the present run of main

\* The enrichment (sentiment_analysis.py).
VARIABLES
    epc,          \* where main of sentiment_analysis.py is: "off" (not run
                  \* since the last insert), "run", "done"
    scope,        \* the video the run was started for (pipeline.py:70)
    comments,     \* the comment ids the SELECT of the run returned
    walked,       \* how many of them the loop has put into batches
    processed_count,
    batch_failed, \* a batch of the run raised in process_batch
    startTable    \* the table as the run found it

cvars == <<log, pos, committed, table, durable, autocommit, batch, running, cpc,
           site, ci, okOffsets, durOffsets, dbCommitted, crashedBetween>>

pvars == <<file, remote, run, fpc, existing_ids, is_incremental, new_comments,
           page_num, consecutive_empty_pages, shutdown_flag, result, newPerPage,
           sendCalls, enable_kafka, produce_raises, produceCalls, pacing,
           flushes>>

evars == <<epc, scope, comments, walked, processed_count, batch_failed,
           startTable>>

vars == <<cvars, pvars, evars>>

\* No enrichment run has taken place.
EnrichAtRest ==
    /\ epc = "off"
    /\ scope = 1
    /\ comments = <<>>
    /\ walked = 0
    /\ processed_count = 0
    /\ batch_failed = FALSE
    /\ startTable = {}

\* The dict fetch_video_comments returns, as far as main and save_comments
\* read it: success and error; endedBy records how the call ended and http
\* the status of the HttpError that ended it (0 when none did).
NoResult == [success |-> FALSE, endedBy |-> "none", error |-> "", http |-> 0]

\* The producer before its first run: no snapshot file.
ProducerAtRest ==
    /\ file = [state |-> "absent", comments |-> <<>>]
    /\ remote = <<<<>>>>
    /\ run = 0
    /\ fpc = "off"
    /\ existing_ids = {}
    /\ is_incremental = FALSE
    /\ new_comments = <<>>
    /\ page_num = 0
    /\ consecutive_empty_pages = 0
    /\ shutdown_flag = FALSE
    /\ result = NoResult
    /\ newPerPage = <<>>
    /\ sendCalls = <<>>
    /\ enable_kafka = FALSE
    /\ produce_raises = FALSE
    /\ produceCalls = <<>>
    /\ pacing = <<>>
    /\ flushes = 0

\* Comment ids are interchangeable: a log names its first comment 1.
Canonical(l) ==
    \A i \in 1..Len(l) :
        (l[i].kind = "ok" /\ \A j \in 1..(i - 1) : l[j].kind = "bad")
            => l[i].comment_id = 1

InitConsumer ==
    /\ log \in {l \in SeqsUpTo(Msgs, MaxLog) : Canonical(l)}
    /\ pos = 0
    /\ committed = 0
    /\ table = {}
    /\ durable = {}
    /\ autocommit \in BOOLEAN
    /\ batch = <<>>
    /\ running = TRUE
    /\ cpc = "poll"
    /\ site = "none"
    /\ ci = 1
    /\ okOffsets = {}
    /\ durOffsets = {}
    /\ dbCommitted = FALSE
    /\ crashedBetween = FALSE
    /\ ProducerAtRest
    /\ EnrichAtRest

\* ---------------------------------------------------- consumer: actions
Alive == cpc \in {"poll", "commit", "finally", "close"}

\* signal_handler: SIGINT/SIGTERM clears the flag at any point of the loop.
signal_handler ==
    /\ Alive
    /\ running
    /\ running' = FALSE
    /\ UNCHANGED <<pvars, evars, log, pos, committed, table, durable, autocommit, batch, cpc,
                   site, ci, okOffsets, durOffsets, dbCommitted,
                   crashedBetween>>

\* while running: evaluates to false; control reaches the finally block.
LoopExit ==
    /\ cpc = "poll"
    /\ ~running
    /\ cpc' = "finally"
    /\ UNCHANGED <<pvars, evars, log, pos, committed, table, durable, autocommit, batch, running,
                   site, ci, okOffsets, durOffsets, dbCommitted,
                   crashedBetween>>

\* consumer.poll returns None with a pending batch: the idle commit block.
\* (With an empty batch the iteration changes nothing.)
PollNone ==
    /\ cpc = "poll"
    /\ running
    /\ batch # <<>>
    /\ cpc' = "commit"
    /\ site' = "idle"
    /\ ci' = 1
    /\ UNCHANGED <<pvars, evars, log, pos, committed, table, durable, autocommit, batch, running,
                   okOffsets, durOffsets, dbCommitted, crashedBetween>>

\* consumer.poll returns an error other than _PARTITION_EOF: KafkaException
\* leaves the loop through the finally block.
PollFatal ==
    /\ cpc = "poll"
    /\ running
    /\ cpc' = "finally"
    /\ UNCHANGED <<pvars, evars, log, pos, committed, table, durable, autocommit, batch, running,
                   site, ci, okOffsets, durOffsets, dbCommitted,
                   crashedBetween>>

\* A plausible slip: the decode error is not caught inside the loop and takes
\* control to the finally block.
PollBadEscaping ==
    /\ cpc = "poll"
    /\ running
    /\ pos < Len(log)
    /\ log[pos + 1].kind = "bad"
    /\ pos' = pos + 1
    /\ cpc' = "finally"
    /\ UNCHANGED <<pvars, evars, log, committed, table, durable, autocommit, batch, running,
                   site, ci, okOffsets, durOffsets, dbCommitted,
                   crashedBetween>>

\* consumer.poll returns a message that json.loads rejects: logged, skipped.
PollBad ==
    /\ cpc = "poll"
    /\ running
    /\ pos < Len(log)
    /\ log[pos + 1].kind = "bad"
    /\ pos' = pos + 1
    /\ UNCHANGED <<pvars, evars, log, committed, table, durable, autocommit, batch, running, cpc,
                   site, ci, okOffsets, durOffsets, dbCommitted,
                   crashedBetween>>

\* insert_comment: the upsert either executes or raises; the except clause of
\* insert_comment logs the failure and returns normally.
insert_comment(t, m, executes) ==
    IF executes THEN Upsert(t, m) ELSE t

\* consumer.poll returns a decodable message: insert_comment, batch.append,
\* and the size test that opens the full-batch commit block.
PollGoodWith(outcomes) ==
    /\ cpc = "poll"
    /\ running
    /\ pos < Len(log)
    /\ log[pos + 1].kind = "ok"
    /\ \E executes \in outcomes :
          /\ table' = insert_comment(table, log[pos + 1], executes)
          /\ okOffsets' = IF executes THEN okOffsets \cup {pos + 1} ELSE okOffsets
          /\ durable' = IF autocommit
                        THEN insert_comment(durable, log[pos + 1], executes)
                        ELSE durable
          /\ durOffsets' = IF autocommit /\ executes
                           THEN durOffsets \cup {pos + 1} ELSE durOffsets
    /\ pos' = pos + 1
    /\ batch' = Append(batch, log[pos + 1])
    /\ dbCommitted' = FALSE
    /\ IF Len(batch') >= batch_size
       THEN cpc' = "commit" /\ site' = "full" /\ ci' = 1
       ELSE UNCHANGED <<cpc, site, ci>>
    /\ UNCHANGED <<pvars, evars, log, committed, autocommit, running, crashedBetween>>

PollGood == PollGoodWith(BOOLEAN)

\* Control after a commit call of the present block returned.
AfterCommitOk ==
    IF ci = Len(CommitSequence)
    THEN /\ batch' = <<>>
         /\ ci' = 1
         /\ cpc' = IF site = "final" THEN "close" ELSE "poll"
         /\ site' = "none"
    ELSE /\ ci' = ci + 1
         /\ UNCHANGED <<batch, cpc, site>>

\* Control after a commit call raised: in the full-batch block the handler at
\* line 236 logs and the loop goes on with the batch kept; in the idle block
\* the exception leaves the loop through finally; in the finally block it
\* ends the process.
AfterCommitFail ==
    /\ ci' = 1
    /\ batch' = batch
    /\ cpc' = CASE site = "full" -> "poll"
                [] site = "idle" -> "finally"
                [] OTHER -> "done"
    /\ site' = "none"
    /\ table' = IF site \in {"full", "idle"} THEN table ELSE durable
    /\ okOffsets' = IF site \in {"full", "idle"} THEN okOffsets ELSE durOffsets

\* conn.commit() returns.
DbCommitOk ==
    /\ cpc = "commit"
    /\ CommitSequence[ci] = "db"
    /\ durable' = table
    /\ durOffsets' = okOffsets
    /\ dbCommitted' = (ci # Len(CommitSequence))
    /\ AfterCommitOk
    /\ UNCHANGED <<pvars, evars, log, pos, committed, table, autocommit, running,
                   okOffsets, crashedBetween>>

\* conn.commit() raises.
DbCommitFail ==
    /\ cpc = "commit"
    /\ CommitSequence[ci] = "db"
    /\ AfterCommitFail
    /\ UNCHANGED <<pvars, evars, log, pos, committed, durable, autocommit, running,
                   durOffsets, dbCommitted, crashedBetween>>

\* consumer.commit() returns: the offsets of everything polled are committed.
OffsetCommitOk ==
    /\ cpc = "commit"
    /\ CommitSequence[ci] = "kafka"
    /\ committed' = pos
    /\ dbCommitted' = (dbCommitted /\ ci # Len(CommitSequence))
    /\ AfterCommitOk
    /\ UNCHANGED <<pvars, evars, log, pos, table, durable, autocommit, running,
                   okOffsets, durOffsets, crashedBetween>>

\* consumer.commit() raises.
OffsetCommitFail ==
    /\ cpc = "commit"
    /\ CommitSequence[ci] = "kafka"
    /\ AfterCommitFail
    /\ UNCHANGED <<pvars, evars, log, pos, committed, durable, autocommit, running,
                   durOffsets, dbCommitted, crashedBetween>>

\* A plausible slip: the finally block closes without committing the batch.
FinallySkipping ==
    /\ cpc = "finally"
    /\ cpc' = "close"
    /\ UNCHANGED <<pvars, evars, log, pos, committed, table, durable, autocommit, batch, running,
                   site, ci, okOffsets, durOffsets, dbCommitted, crashedBetween>>

\* finally: a non-empty batch opens the final commit block.
Finally ==
    /\ cpc = "finally"
    /\ IF batch # <<>>
       THEN cpc' = "commit" /\ site' = "final" /\ ci' = 1
       ELSE cpc' = "close" /\ UNCHANGED <<site, ci>>
    /\ UNCHANGED <<pvars, evars, log, pos, committed, table, durable, autocommit, batch, running,
                   okOffsets, durOffsets, dbCommitted, crashedBetween>>

\* consumer.close(); conn.close(): an open transaction is discarded.
Close ==
    /\ cpc = "close"
    /\ cpc' = "done"
    /\ table' = durable
    /\ okOffsets' = durOffsets
    /\ UNCHANGED <<pvars, evars, log, pos, committed, durable, autocommit, batch, running, site,
                   ci, durOffsets, dbCommitted, crashedBetween>>

\* The process dies (kill -9, power loss): what is not on disk is lost, and so
\* is every local of consume_from_kafka.
Crash ==
    /\ Alive
    /\ cpc' = "crashed"
    /\ table' = durable
    /\ okOffsets' = durOffsets
    /\ crashedBetween' = (crashedBetween \/ (cpc = "commit" /\ dbCommitted))
    /\ pos' = committed
    /\ batch' = <<>>
    /\ running' = TRUE
    /\ site' = "none"
    /\ ci' = 1
    /\ dbCommitted' = FALSE
    /\ UNCHANGED <<pvars, evars, log, committed, durable, autocommit, durOffsets>>

\* consume_from_kafka starts again: the group resumes at the committed offset
\* ('enable.auto.commit': False, 'auto.offset.reset': 'earliest').
Start ==
    /\ cpc \in {"done", "crashed"}
    /\ pos' = committed
    /\ batch' = <<>>
    /\ running' = TRUE
    /\ cpc' = "poll"
    /\ ci' = 1
    /\ dbCommitted' = FALSE
    /\ UNCHANGED <<pvars, evars, log, committed, table, durable, autocommit, site, okOffsets,
                   durOffsets, crashedBetween>>

ConsumerSteps ==
    \/ signal_handler
    \/ LoopExit
    \/ PollNone
    \/ PollFatal
    \/ PollBad
    \/ DbCommitOk
    \/ DbCommitFail
    \/ OffsetCommitOk
    \/ OffsetCommitFail
    \/ Finally
    \/ Close
    \/ Crash
    \/ Start

NextConsumer ==
    \/ PollGood
    \/ ConsumerSteps

SpecConsumer == InitConsumer /\ [][NextConsumer]_vars

\* The consumer in an environment where no INSERT raises.
PollGoodExecuting == PollGoodWith({TRUE})

NextConsumerExecuting ==
    \/ PollGoodExecuting
    \/ ConsumerSteps

SpecConsumerExecuting == InitConsumer /\ [][NextConsumerExecuting]_vars

\* ------------------------------------------- the upsert against enrichment
\* SpecUpsert applies insert_comment to the table record by record, with
\* enrichment runs of sentiment_analysis.py in between. log is the history of
\* the records applied, okOffsets the indices whose statement executed.
InitUpsert ==
    /\ log = <<>>
    /\ pos = 0
    /\ committed = 0
    /\ table = {}
    /\ durable = {}
    /\ autocommit = TRUE
    /\ batch = <<>>
    /\ running = TRUE
    /\ cpc = "upsert"
    /\ site = "none"
    /\ ci = 1
    /\ okOffsets = {}
    /\ durOffsets = {}
    /\ dbCommitted = FALSE
    /\ crashedBetween = FALSE
    /\ ProducerAtRest
    /\ EnrichAtRest

\* One call of insert_comment with a record of the topic.
ApplyInsert ==
    /\ cpc = "upsert"
    /\ epc \in {"off", "done"}
    /\ epc' = "off"
    /\ Len(log) < MaxLog
    /\ \E m \in OkMsgs, executes \in BOOLEAN :
          /\ log' = Append(log, m)
          /\ table' = insert_comment(table, m, executes)
          /\ okOffsets' = IF executes THEN okOffsets \cup {Len(log) + 1} ELSE okOffsets
    /\ durable' = table'
    /\ durOffsets' = okOffsets'
    /\ UNCHANGED <<pvars, scope, comments, walked, processed_count, batch_failed,
                   startTable, pos, committed, autocommit, batch, running, cpc, site, ci,
                   dbCommitted, crashedBetween>>

\* analyze_sentiment: 'neutral', 0.0 for a text that is empty or blank, and
\* the VADER label and compound score otherwise (one label and one score
\* stand for them; the score is written as its decimal numeral).
analyze_sentiment(text) ==
    IF clean_text(text) = <<>> THEN [label |-> "neutral", score |-> "0.0"]
    ELSE [label |-> "positive", score |-> "0.6"]

\* extract_phrases_rake: a list of at most five phrases of two to four words;
\* the empty list for a text that is empty or has no such phrase.
extract_phrases_rake(text) ==
    IF Len(SplitWords(text, <<>>, <<>>)) < 2 THEN <<>> ELSE <<clean_text(text)>>

\* A plausible slip: an empty phrase list is stored as NULL.
json_dumpsNullWhenEmpty(phrases) ==
    IF phrases = <<>> THEN NULL ELSE <<"[">> \o phrases \o <<"]">>

\* json.dumps of the phrase list: a string, "[]" for the empty list.
json_dumps(phrases) == <<"[">> \o phrases \o <<"]">>

\* A plausible slip: the phrases are left to a later statement.
EnrichedSentimentOnly(r) ==
    [r EXCEPT !.sentiment_label = analyze_sentiment(r.text).label,
              !.sentiment_score = analyze_sentiment(r.text).score]

\* The UPDATE of process_batch for one selected row: the three derived
\* columns are set in one statement.
Enriched(r) ==
    [r EXCEPT !.sentiment_label = analyze_sentiment(r.text).label,
              !.sentiment_score = analyze_sentiment(r.text).score,
              !.phrases = json_dumps(extract_phrases_rake(r.text))]

\* WHERE sentiment_label IS NULL OR phrases IS NULL
Unprocessed(r) == r.sentiment_label = NULL \/ r.phrases = NULL

\* A plausible slip: the rows are selected whatever their derived columns.
SelectedAll(t) == t

\* The rows the SELECT of main returns: no video is named in it.
Selected(t) == {r \in t : Unprocessed(r)}

\* process_batch: executemany of the UPDATE by comment_id and commit; when
\* it raises, rollback, and the caller drops the batch. executemany runs the
\* statement once per row: when it raises at a row, the rows before it
\* (kept) stay written where the connection commits each statement by
\* itself, and are undone (kept is empty) where a transaction is open.
process_batch(t, ids, kept, ok) ==
    {IF r.comment_id \in (IF ok THEN ids ELSE kept) THEN Enriched(r) ELSE r : r \in t}

sa_batch_size == 2   \* sentiment_analysis.py:214 sets 1000; scaled down

\* The videos of the model.
VideoIds == {VideoOf(id) : id \in CommentIds}

\* main of sentiment_analysis.py up to the loop: the count, the return when
\* nothing is unprocessed, and the SELECT, whose row order is not specified.
\* The caller means the run for one video (pipeline.py:70); main takes no
\* argument.
EnrichStart ==
    /\ cpc = "upsert"
    /\ epc \in {"off", "done"}
    /\ scope' \in VideoIds
    /\ comments' \in {c \in SeqsUpTo(CommentIds, Cardinality(CommentIds)) :
                        /\ Len(c) = Cardinality(Selected(table))
                        /\ {c[i] : i \in 1..Len(c)} =
                              {r.comment_id : r \in Selected(table)}}
    /\ walked' = 0
    /\ processed_count' = 0
    /\ batch_failed' = FALSE
    /\ startTable' = table
    /\ epc' = IF Selected(table) = {} THEN "done" ELSE "run"
    /\ UNCHANGED <<cvars, pvars>>

\* One batch of the run, full (lines 227-260) or remaining (263-276): the
\* rows are analysed and updated, and counted when process_batch returned.
EnrichBatch ==
    /\ epc = "run"
    /\ walked < Len(comments)
    /\ LET n == IF Len(comments) - walked < sa_batch_size
                THEN Len(comments) - walked ELSE sa_batch_size
           ids == {comments[i] : i \in (walked + 1)..(walked + n)}
       IN /\ walked' = walked + n
          /\ \E ok \in BOOLEAN, k \in 0..(n - 1) :
                /\ ok => k = 0
                /\ table' = process_batch(table, ids,
                               {comments[i] : i \in (walked + 1)..(walked + k)}, ok)
                /\ processed_count' = IF ok THEN processed_count + n
                                      ELSE processed_count
                /\ batch_failed' = (batch_failed \/ ~ok)
    /\ durable' = table'
    /\ UNCHANGED <<pvars, epc, scope, comments, startTable, log, pos, committed,
                   autocommit, batch, running, cpc, site, ci, okOffsets,
                   durOffsets, dbCommitted, crashedBetween>>

\* The run is through its batches: the statistics, conn.close().
EnrichEnd ==
    /\ epc = "run"
    /\ walked = Len(comments)
    /\ epc' = "done"
    /\ UNCHANGED <<cvars, pvars, scope, comments, walked, processed_count,
                   batch_failed, startTable>>

NextUpsert ==
    \/ ApplyInsert
    \/ EnrichStart
    \/ EnrichBatch
    \/ EnrichEnd

SpecUpsert == InitUpsert /\ [][NextUpsert]_vars

\* ------------------------------------------------------ consumer: claims
RowsOf(t, id) == {r \in t : r.comment_id = id}

SameEngagement(r, m) ==
    /\ r.like_count = m.like_count
    /\ r.reply_count = m.reply_count
    /\ r.updated_at = m.updated_at

SameEnrichment(r, q) ==
    /\ r.sentiment_label = q.sentiment_label
    /\ r.sentiment_score = q.sentiment_score
    /\ r.phrases = q.phrases

\* C1: in every commit block of consume_from_kafka (full batch, idle poll,
\* finally) the committed offset moves only in a state where conn.commit() has
\* already returned for the present batch and the connection holds nothing
\* that is not on disk: the storage commit precedes the offset commit.
C1_StorageCommitBeforeOffsetCommit ==
    [][committed' # committed =>
         (dbCommitted /\ durable = table /\ durOffsets = okOffsets)]_vars

\* The finally block has committed the last batch, offsets included.
C1_Witness ==
    /\ cpc = "close"
    /\ ~running
    /\ pos > 0
    /\ committed = pos
    /\ durable = table
    /\ pos \in okOffsets

\* C2: every decodable message at an offset covered by the committed offset
\* has had its upsert applied to the table on disk; a message whose storage
\* write failed is never covered by a committed offset.
C2_NoSilentLoss ==
    \A i \in 1..committed : log[i].kind = "ok" => i \in durOffsets

\* C3: insert_comment is an idempotent upsert. On every reachable table, and
\* for every record m: applying m twice gives the table that applying it once
\* gives, with exactly one row for m's comment_id, holding m's like_count,
\* reply_count and updated_at, and with the enrichment fields the row had
\* before the applications; and the table never holds two rows of one id.
C3_IdempotentUpsert ==
    /\ \A id \in CommentIds : Cardinality(RowsOf(table, id)) <= 1
    /\ \A m \in OkMsgs :
         LET once == Upsert(table, m)
             twice == Upsert(once, m)
         IN /\ twice = once
            /\ Cardinality(RowsOf(twice, m.comment_id)) = 1
            /\ \A r \in RowsOf(twice, m.comment_id) :
                 /\ SameEngagement(r, m)
                 /\ \A q \in RowsOf(table, m.comment_id) : SameEnrichment(r, q)
                 /\ \A q \in RowsOf(once, m.comment_id) : SameEnrichment(r, q)
    /\ (Len(log) > 0 /\ Len(log) \in okOffsets) =>
         \A r \in RowsOf(table, log[Len(log)].comment_id) :
             SameEngagement(r, log[Len(log)])

\* The same record was applied twice, both statements executed, and its row
\* carries enrichment fields.
C3_Witness ==
    /\ cpc = "upsert"
    /\ \E i \in okOffsets, j \in okOffsets :
         /\ i < j
         /\ j = Len(log)
         /\ log[i] = log[j]
         /\ \E r \in RowsOf(table, log[j].comment_id) :
              /\ r.sentiment_label # NULL
              /\ SameEngagement(r, log[j])

\* The table of a run that applies every decodable message of l once, in
\* log order, without a crash.
RECURSIVE Reference(_)
Reference(l) ==
    IF l = <<>> THEN {}
    ELSE LET before == Reference(SubSeq(l, 1, Len(l) - 1))
             m == l[Len(l)]
         IN IF m.kind = "ok" THEN Upsert(before, m) ELSE before

LogIds(l) == {l[i].comment_id : i \in {j \in 1..Len(l) : l[j].kind = "ok"}}

\* C4: after a crash between a batch's storage commit and its offset commit,
\* once the restarted consumer has consumed the log again, the table has
\* exactly one row per comment_id consumed, with the engagement values of the
\* crash-free run over the same log.
C4_ReplayKeepsTable ==
    (crashedBetween /\ cpc = "poll" /\ pos = Len(log)) =>
        \A id \in LogIds(log) :
            /\ Cardinality(RowsOf(table, id)) = 1
            /\ \A r \in RowsOf(table, id) :
                 \E q \in RowsOf(Reference(log), id) : SameEngagement(r, q)

\* ---------------------------------------------------- producer: actions
\* The locals of one fetch_video_comments call, as ProcessPage reads them.
FetchLocals ==
    [new_comments |-> new_comments,
     consecutive_empty_pages |-> consecutive_empty_pages,
     page_num |-> page_num, ended |-> "none"]

\* A plausible slip: the flag is never looked at.
MayGoOnAlways(flag) == TRUE

\* if shutdown_flag: break, at the head of the paging loop (line 157) and of
\* the loops over the categories and the videos (lines 333, 342): the loop
\* goes on only while the flag is not set.
MayGoOn(flag) == ~flag

\* A plausible slip: the sleep right after the page is processed.
PacesAlways(ended) == TRUE

\* time.sleep(0.5) at line 224 is reached when neither the early stop (216)
\* nor the missing token (222) broke the loop.
Paces(ended) == ended = "none"

\* signal_handler of fetch_comments.py sets the flag while a run of main is
\* under way. A signal that arrives inside an iteration of the paging loop is
\* seen at the next check of the flag: it is taken after that iteration.
set_shutdown_flag ==
    /\ fpc \in {"idle", "fetch", "fetched", "saved"}
    /\ ~shutdown_flag
    /\ shutdown_flag' = TRUE
    /\ UNCHANGED <<cvars, evars, pacing, flushes, file, remote, run, fpc, existing_ids, is_incremental,
                   new_comments, page_num, consecutive_empty_pages, result,
                   newPerPage, sendCalls,
                   enable_kafka, produce_raises, produceCalls>>

\* A run of main reaches the video: get_existing_comments, then the head of
\* fetch_video_comments up to the paging loop (videos().list finds the video).
StartVideo ==
    /\ fpc = "idle"
    /\ MayGoOn(shutdown_flag)
    /\ run < MaxRuns
    /\ run' = run + 1
    /\ remote' \in Remotes
    /\ existing_ids' = ExistingIds(file)
    /\ is_incremental' = IsIncremental(ExistingIds(file))
    /\ new_comments' = <<>>
    /\ page_num' = 0
    /\ consecutive_empty_pages' = 0
    /\ result' = NoResult
    /\ newPerPage' = <<>>
    /\ sendCalls' = <<>>
    /\ produce_raises' \in (IF enable_kafka THEN BOOLEAN ELSE {FALSE})
    /\ produceCalls' = <<>>
    /\ pacing' = <<>>
    /\ fpc' = "fetch"
    /\ UNCHANGED <<cvars, evars, flushes, file, shutdown_flag, enable_kafka>>

\* videos().list returns no item (line 131), or raises (line 244): the fetch
\* returns a failure before any page request.
StartVideoFails ==
    /\ fpc = "idle"
    /\ MayGoOn(shutdown_flag)
    /\ run < MaxRuns
    /\ run' = run + 1
    /\ existing_ids' = ExistingIds(file)
    /\ is_incremental' = FALSE
    /\ new_comments' = <<>>
    /\ page_num' = 0
    /\ consecutive_empty_pages' = 0
    /\ \E why \in {"notFound", "exception"} :
          result' = [success |-> FALSE, endedBy |-> why,
                     error |-> IF why = "notFound" THEN "Video not found"
                               ELSE "exception",
                     http |-> 0]
    /\ newPerPage' = <<>>
    /\ sendCalls' = <<>>
    /\ produce_raises' \in (IF enable_kafka THEN BOOLEAN ELSE {FALSE})
    /\ produceCalls' = <<>>
    /\ pacing' = <<>>
    /\ fpc' = "fetched"
    /\ UNCHANGED <<cvars, evars, flushes, file, remote, shutdown_flag, enable_kafka>>

\* if shutdown_flag: break, at the head of the paging loop.
FetchShutdown ==
    /\ fpc = "fetch"
    /\ ~MayGoOn(shutdown_flag)
    /\ result' = [success |-> TRUE, endedBy |-> "shutdown", error |-> "", http |-> 0]
    /\ fpc' = "fetched"
    /\ UNCHANGED <<cvars, evars, pacing, flushes, file, remote, run, existing_ids, is_incremental,
                   new_comments, page_num, consecutive_empty_pages,
                   shutdown_flag, newPerPage, sendCalls,
                   enable_kafka, produce_raises, produceCalls>>

\* One iteration of the paging loop whose request is answered: the page is
\* processed, each new comment is passed to send_to_kafka, and the loop ends
\* by early stop or for lack of a next-page token, or sleeps and goes on.
FetchPage ==
    /\ fpc = "fetch"
    /\ MayGoOn(shutdown_flag)
    /\ page_num < Len(remote)
    /\ LET st == ProcessPage(FetchLocals, remote[page_num + 1],
                             page_num + 1 < Len(remote),
                             existing_ids, is_incremental, run)
           added == SubSeq(st.new_comments, Len(new_comments) + 1,
                           Len(st.new_comments))
           ids == [i \in 1..Len(added) |-> added[i].comment_id]
           pub == PublishAll(ids, enable_kafka, produce_raises)
       IN /\ page_num' = st.page_num
          /\ sendCalls' = sendCalls \o SubSeq(ids, 1, pub.calls)
          /\ produceCalls' = produceCalls \o pub.keys
          /\ IF pub.raised
             THEN \* an exception out of send_to_kafka would reach line 244
                  /\ fpc' = "fetched"
                  /\ result' = [success |-> FALSE, endedBy |-> "publishError",
                                error |-> "exception", http |-> 0]
                  /\ pacing' = Append(pacing, FALSE)
                  /\ UNCHANGED <<new_comments, consecutive_empty_pages,
                                 newPerPage>>
             ELSE /\ new_comments' = st.new_comments
                  /\ pacing' = Append(pacing, Paces(st.ended))
                  /\ consecutive_empty_pages' = st.consecutive_empty_pages
                  /\ newPerPage' = Append(newPerPage, Len(added))
                  /\ IF st.ended = "none"
                     THEN UNCHANGED <<fpc, result>>
                     ELSE /\ fpc' = "fetched"
                          /\ result' = [success |-> TRUE, endedBy |-> st.ended,
                                        error |-> "", http |-> 0]
    /\ UNCHANGED <<cvars, evars, flushes, file, remote, run, existing_ids,
                   is_incremental, shutdown_flag, enable_kafka, produce_raises>>

\* The page request raises HttpError (403 or another status): both handlers
\* log and break, and the fetch returns what it has as a success.
FetchHttpError ==
    /\ fpc = "fetch"
    /\ MayGoOn(shutdown_flag)
    /\ page_num < Len(remote)
    /\ page_num' = page_num + 1
    /\ \E status \in HttpStatuses :
          result' = [success |-> TRUE, endedBy |-> "httpError", error |-> "",
                     http |-> status]
    /\ pacing' = Append(pacing, FALSE)
    /\ fpc' = "fetched"
    /\ UNCHANGED <<cvars, evars, flushes, file, remote, run, existing_ids, is_incremental,
                   new_comments, consecutive_empty_pages, shutdown_flag,
                   newPerPage, sendCalls,
                   enable_kafka, produce_raises, produceCalls>>

\* Another exception escapes the iteration (a transport error at the request,
\* an item without an expected key after k items of the page were handled):
\* the handler at line 244 returns a failure without new_comments.
FetchException ==
    /\ fpc = "fetch"
    /\ MayGoOn(shutdown_flag)
    /\ page_num < Len(remote)
    /\ page_num' = page_num + 1
    /\ \E k \in 0..Len(remote[page_num + 1]) :
          LET handled == PageComments(SubSeq(remote[page_num + 1], 1, k),
                                      existing_ids, run)
              ids == [i \in 1..Len(handled) |-> handled[i].comment_id]
          IN /\ sendCalls' = sendCalls \o ids
             /\ produceCalls' = produceCalls \o
                                  PublishAll(ids, enable_kafka, produce_raises).keys
    /\ result' = [success |-> FALSE, endedBy |-> "exception",
                  error |-> "exception", http |-> 0]
    /\ pacing' = Append(pacing, FALSE)
    /\ fpc' = "fetched"
    /\ UNCHANGED <<cvars, evars, flushes, file, remote, run, existing_ids, is_incremental,
                   new_comments, consecutive_empty_pages, shutdown_flag,
                   newPerPage, enable_kafka, produce_raises>>

\* main after a successful fetch: save_comments(result, merge_with_existing=
\* True) writes the snapshot.
save_comments ==
    /\ fpc = "fetched"
    /\ result.success
    /\ file' = [state |-> "ok", comments |-> FinalComments(file, new_comments)]
    /\ fpc' = "saved"
    /\ UNCHANGED <<cvars, evars, pacing, flushes, remote, run, existing_ids, is_incremental, new_comments,
                   page_num, consecutive_empty_pages, shutdown_flag, result,
                   newPerPage, sendCalls,
                   enable_kafka, produce_raises, produceCalls>>

\* The process dies inside json.dump, after open(json_file, 'w') truncated
\* the file: what is left does not load.
SaveCrash ==
    /\ fpc = "fetched"
    /\ result.success
    /\ file' = [state |-> "corrupt", comments |-> <<>>]
    /\ fpc' = "killed"
    /\ UNCHANGED <<cvars, evars, pacing, flushes, remote, run, existing_ids, is_incremental, new_comments,
                   page_num, consecutive_empty_pages, shutdown_flag, result,
                   newPerPage, sendCalls,
                   enable_kafka, produce_raises, produceCalls>>

\* The write of save_comments raises (open or json.dump, lines 286-287): no
\* handler is in save_comments or around its call in main, so the exception
\* leaves the loop over the videos through the finally of main. The file is
\* as it was when open raised, and truncated when json.dump raised.
SaveRaises ==
    /\ fpc = "fetched"
    /\ result.success
    /\ \E left \in {file, [state |-> "corrupt", comments |-> <<>>]} : file' = left
    /\ fpc' = "aborted"
    /\ UNCHANGED <<cvars, evars, pacing, flushes, remote, run, existing_ids, is_incremental, new_comments,
                   page_num, consecutive_empty_pages, shutdown_flag, result,
                   newPerPage, sendCalls,
                   enable_kafka, produce_raises, produceCalls>>

\* A plausible slip: the snapshot is written whatever the fetch returned.
SkipSaveWriting ==
    /\ fpc = "fetched"
    /\ ~result.success
    /\ file' = [state |-> "ok", comments |-> FinalComments(file, new_comments)]
    /\ fpc' = "saved"
    /\ UNCHANGED <<cvars, evars, pacing, flushes, remote, run, existing_ids, is_incremental, new_comments,
                   page_num, consecutive_empty_pages, shutdown_flag, result,
                   newPerPage, sendCalls,
                   enable_kafka, produce_raises, produceCalls>>

\* main after a failed fetch: the failure is logged, nothing is saved.
SkipSave ==
    /\ fpc = "fetched"
    /\ ~result.success
    /\ fpc' = "saved"
    /\ UNCHANGED <<cvars, evars, pacing, flushes, file, remote, run, existing_ids, is_incremental,
                   new_comments, page_num, consecutive_empty_pages,
                   shutdown_flag, result, newPerPage, sendCalls,
                   enable_kafka, produce_raises, produceCalls>>

\* main goes on to the next video after time.sleep(1) (line 379): the locals
\* of the fetch are gone, the flag and the fetcher stay.
NextVideo ==
    /\ fpc = "saved"
    /\ fpc' = "idle"
    /\ remote' = <<<<>>>>
    /\ existing_ids' = {}
    /\ is_incremental' = FALSE
    /\ new_comments' = <<>>
    /\ page_num' = 0
    /\ consecutive_empty_pages' = 0
    /\ result' = NoResult
    /\ newPerPage' = <<>>
    /\ sendCalls' = <<>>
    /\ produce_raises' = FALSE
    /\ produceCalls' = <<>>
    /\ pacing' = <<>>
    /\ UNCHANGED <<cvars, evars, flushes, file, run, shutdown_flag, enable_kafka>>

\* A plausible slip: close() after the loop instead of in a finally.
closeAfterLoop(n, has_producer, escaping) ==
    IF has_producer /\ ~escaping THEN n + 1 ELSE n

\* The finally of main calls fetcher.close(), whatever way the loop was left
\* (escaping: by an exception): close flushes the producer when there is one.
close(n, has_producer, escaping) == IF has_producer THEN n + 1 ELSE n

\* main leaves the loop over the videos: no video is left, the flag was seen
\* at line 333 or 342, or the exception of save_comments escapes; the finally
\* runs and the process exits.
MainExit ==
    /\ fpc \in {"idle", "aborted"}
    /\ flushes' = close(flushes, enable_kafka, fpc = "aborted")
    /\ fpc' = "off"
    /\ remote' = <<<<>>>>
    /\ existing_ids' = {}
    /\ is_incremental' = FALSE
    /\ new_comments' = <<>>
    /\ page_num' = 0
    /\ consecutive_empty_pages' = 0
    /\ result' = NoResult
    /\ newPerPage' = <<>>
    /\ sendCalls' = <<>>
    /\ produce_raises' = FALSE
    /\ produceCalls' = <<>>
    /\ pacing' = <<>>
    /\ UNCHANGED <<cvars, evars, file, run, shutdown_flag, enable_kafka>>

\* main starts in a new process: the module sets shutdown_flag = False, and
\* main constructs the CommentFetcher, whose enable_kafka is cleared when
\* Producer() raises. (A run that returns at line 314 or 320 constructs no
\* fetcher and changes nothing.)
MainStart ==
    /\ fpc \in {"off", "killed"}
    /\ run < MaxRuns
    /\ fpc' = "idle"
    /\ shutdown_flag' = FALSE
    /\ enable_kafka' \in BOOLEAN
    /\ flushes' = 0
    /\ remote' = <<<<>>>>
    /\ existing_ids' = {}
    /\ is_incremental' = FALSE
    /\ new_comments' = <<>>
    /\ page_num' = 0
    /\ consecutive_empty_pages' = 0
    /\ result' = NoResult
    /\ newPerPage' = <<>>
    /\ sendCalls' = <<>>
    /\ produce_raises' = FALSE
    /\ produceCalls' = <<>>
    /\ pacing' = <<>>
    /\ UNCHANGED <<cvars, evars, file, run>>

NextProducer ==
    \/ set_shutdown_flag
    \/ StartVideo
    \/ StartVideoFails
    \/ FetchShutdown
    \/ FetchPage
    \/ FetchHttpError
    \/ FetchException
    \/ save_comments
    \/ SaveCrash
    \/ SaveRaises
    \/ SkipSave
    \/ NextVideo
    \/ MainExit
    \/ MainStart

\* The consumer is down while the producer is observed.
ConsumerDown ==
    /\ log = <<>>
    /\ pos = 0
    /\ committed = 0
    /\ table = {}
    /\ durable = {}
    /\ autocommit = TRUE
    /\ batch = <<>>
    /\ running = TRUE
    /\ cpc = "done"
    /\ site = "none"
    /\ ci = 1
    /\ okOffsets = {}
    /\ durOffsets = {}
    /\ dbCommitted = FALSE
    /\ crashedBetween = FALSE
    /\ EnrichAtRest

InitProducer == ConsumerDown /\ ProducerAtRest

SpecProducer == InitProducer /\ [][NextProducer]_vars

\* ------------------------------------------- save_comments on any input
MaxSnap == 2         \* entries of a snapshot or of a result handed to save_comments

\* The comment records of the ids, with the counters of any run.
CommentRecords == {CommentData(id, r) : id \in CommentIds, r \in Versions}

\* The snapshot files save_comments can meet: none, one that does not load,
\* and one that loads.
Snapshots ==
    {[state |-> st, comments |-> <<>>] : st \in {"absent", "corrupt"}}
    \cup {[state |-> "ok", comments |-> cs] : cs \in SeqsUpTo(CommentRecords, MaxSnap)}

\* save_comments(result, merge_with_existing=True) is called with a
\* successful result holding any new_comments, on any snapshot file.
InitSave ==
    /\ ConsumerDown
    /\ file \in Snapshots
    /\ new_comments \in SeqsUpTo(CommentRecords, MaxSnap)
    /\ result = [success |-> TRUE, endedBy |-> "noToken", error |-> "", http |-> 0]
    /\ fpc = "fetched"
    /\ remote = <<<<>>>>
    /\ run = 1
    /\ existing_ids = ExistingIds(file)
    /\ is_incremental = IsIncremental(existing_ids)
    /\ page_num = 0
    /\ consecutive_empty_pages = 0
    /\ shutdown_flag = FALSE
    /\ newPerPage = <<>>
    /\ sendCalls = <<>>
    /\ enable_kafka = FALSE
    /\ produce_raises = FALSE
    /\ produceCalls = <<>>
    /\ pacing = <<>>
    /\ flushes = 0

NextSave ==
    \/ save_comments
    \/ SaveCrash
    \/ SaveRaises

SpecSave == InitSave /\ [][NextSave]_vars

\* The step of save_comments that wrote the snapshot through.
SaveStep == fpc = "fetched" /\ fpc' = "saved" /\ result.success /\ file'.state = "ok"

\* The records of new_comments with the comment_id.
NewOf(id) == {new_comments[i] : i \in {j \in 1..Len(new_comments) :
                                        new_comments[j].comment_id = id}}

\* C11: when save_comments merges with a snapshot that loads, every entry of
\* the written snapshot whose comment_id is also in new_comments is a record
\* of new_comments with all its fields, there is such an entry, and none with
\* that comment_id carries the old record.
C11_MergeNewWins ==
    [][(SaveStep /\ file.state = "ok") =>
          \A id \in IdsOf(file.comments) \cap IdsOf(new_comments) :
             /\ \E j \in 1..Len(file'.comments) : file'.comments[j].comment_id = id
             /\ \A j \in 1..Len(file'.comments) :
                   file'.comments[j].comment_id = id
                      => file'.comments[j] \in NewOf(id)]_vars

\* A snapshot was merged with a result holding one of its comments with other
\* counters, and the written snapshot holds the new counters.
C11_Witness ==
    /\ fpc = "saved"
    /\ file.state = "ok"
    /\ \E i \in 1..Len(new_comments) : \E j \in 1..Len(file.comments) :
          /\ new_comments[i].comment_id \in existing_ids
          /\ file.comments[j] = new_comments[i]
          /\ new_comments[i].like_count = 2
    /\ Len(file.comments) > Len(new_comments)

\* ------------------------------------------------------ producer: claims
\* The comments of the item ids that are not in E, in the order of ids, as
\* the remote source reports them in run r.
NotIn(E, ids, r) ==
    LET keep == SelectSeq(ids, LAMBDA id : id \notin E)
    IN [i \in 1..Len(keep) |-> CommentData(keep[i], r)]

\* The pages the present fetch has requested.
Requested == SubSeq(remote, 1, page_num)

\* The number of zeros at the end of a sequence of counts.
RECURSIVE TrailingZeros(_)
TrailingZeros(ns) ==
    IF ns = <<>> \/ ns[Len(ns)] # 0 THEN 0
    ELSE 1 + TrailingZeros(SubSeq(ns, 1, Len(ns) - 1))

EndedNormally ==
    /\ fpc = "fetched"
    /\ result.success
    /\ result.endedBy \in {"noToken", "earlyStop"}

\* C5: no comment whose comment_id is in the existing-ID set passed to the
\* fetch is ever appended to new_comments or passed to send_to_kafka, whatever
\* the pages hold.
C5_DedupCorrect ==
    /\ \A i \in 1..Len(new_comments) : new_comments[i].comment_id \notin existing_ids
    /\ \A i \in 1..Len(sendCalls) : sendCalls[i] \notin existing_ids

\* A fetch has processed a page that held a known comment beside a new one.
C5_Witness ==
    /\ fpc = "fetched"
    /\ result.success
    /\ \E p \in 1..Len(newPerPage) :
         /\ \E i \in 1..Len(remote[p]) : remote[p][i] \in existing_ids
         /\ newPerPage[p] > 0

\* The scenario of the claim: existing = {c1, c2}, pages [c1, c3, c4], [],
\* [], [] give [c3, c4] after exactly 4 page requests, also when a fifth page
\* with a new comment exists.
C6_Scenario ==
    LET four == <<<<1, 3, 4>>, <<>>, <<>>, <<>>>>
        a == RunFetch(four, {1, 2}, 1)
        b == RunFetch(Append(four, <<5>>), {1, 2}, 1)
    IN /\ a.new_comments = <<CommentData(3, 1), CommentData(4, 1)>>
       /\ a.page_num = 4
       /\ b.new_comments = a.new_comments
       /\ b.page_num = 4
       /\ b.ended = "earlyStop"

\* C6: with a non-empty existing-ID set, no page request is issued once the
\* last 3 answered requests each added no comment, next-page token or not;
\* the counter of consecutive empty pages is the number of such pages at the
\* end of the fetch so far, so a page with a new comment resets it to 0; and
\* the scenario of the claim gives [c3, c4] after exactly 4 requests.
C6_EarlyStopBound ==
    /\ [](/\ C6_Scenario
          /\ (fpc \in {"fetch", "fetched"} /\ existing_ids # {})
               => consecutive_empty_pages = TrailingZeros(newPerPage))
    /\ [][page_num' > page_num =>
            ~(existing_ids # {} /\ TrailingZeros(newPerPage) >= MAX_EMPTY_PAGES)]_vars

\* An incremental fetch found a new comment, then 3 pages without one, and
\* stopped although the last response carried a next-page token.
C6_Witness ==
    /\ fpc = "fetched"
    /\ result.endedBy = "earlyStop"
    /\ existing_ids # {}
    /\ page_num < Len(remote)
    /\ \E p \in 1..Len(newPerPage) : newPerPage[p] > 0
    /\ TrailingZeros(newPerPage) = MAX_EMPTY_PAGES

\* C7: a fetch with an empty existing-ID set that ends without error and
\* without shutdown has requested every page of the remote source and ended
\* for lack of a next-page token, however many pages in a row were empty.
C7_FirstRunWalksAllPages ==
    (fpc = "fetched" /\ existing_ids = {}
       /\ result.endedBy \notin {"shutdown", "httpError", "exception", "notFound"})
    => (result.endedBy = "noToken" /\ page_num = Len(remote))

\* A first run went through 3 empty pages and on to a page with a comment.
C7_Witness ==
    /\ fpc = "fetched"
    /\ existing_ids = {}
    /\ result.endedBy = "noToken"
    /\ Len(newPerPage) > MAX_EMPTY_PAGES
    /\ \A p \in 1..MAX_EMPTY_PAGES : newPerPage[p] = 0
    /\ newPerPage[Len(newPerPage)] > 0

\* C8 as claimed: a fetch that ends without error or shutdown returns exactly
\* the comments of all pages of the remote source whose id is not in E, in
\* remote order.
C8_FetchContract ==
    EndedNormally => new_comments = NotIn(existing_ids, Flatten(remote), run)

\* C8 as amended: a fetch that ends without error or shutdown returns exactly
\* the comments, in remote order, of the pages it requested whose id is not
\* in E; it requested every page when E is empty or when it ended for lack of
\* a next-page token.
C8_FetchContractOfRequestedPages ==
    EndedNormally =>
        /\ new_comments = NotIn(existing_ids, Flatten(Requested), run)
        /\ (existing_ids = {} \/ result.endedBy = "noToken") => page_num = Len(remote)

\* An early stop left a page unrequested that holds a comment not in E, and
\* the fetch returned new comments of the pages before.
C8_Witness ==
    /\ EndedNormally
    /\ result.endedBy = "earlyStop"
    /\ new_comments # <<>>
    /\ \E p \in (page_num + 1)..Len(remote) :
         \E i \in 1..Len(remote[p]) : remote[p][i] \notin existing_ids

NoDupIds(cs) ==
    \A i \in 1..Len(cs) : \A j \in 1..Len(cs) :
        cs[i].comment_id = cs[j].comment_id => i = j

IsSortedByPublished(cs) ==
    \A i \in 1..Len(cs) : \A j \in 1..Len(cs) :
        i < j => cs[i].published_at <= cs[j].published_at

\* C9: every write of save_comments leaves a snapshot without two entries of
\* one comment_id, holding the ids of the previous snapshot and of
\* new_comments and no others.
C9_SnapshotUnionNoDup ==
    [][(file' # file /\ file'.state = "ok") =>
          /\ NoDupIds(file'.comments)
          /\ IdsOf(file'.comments) = IdsOf(file.comments) \cup IdsOf(new_comments)]_vars

\* C10: every snapshot save_comments has written is non-decreasing in
\* published_at.
C10_SnapshotSorted ==
    file.state = "ok" => IsSortedByPublished(file.comments)

\* C12: save_comments with a successful result whose new_comments is empty,
\* on a snapshot that loads, writes the same comments in the same order.
C12_EmptyMergeChangesNothing ==
    [][(SaveStep /\ file.state = "ok" /\ new_comments = <<>>)
          => file'.comments = file.comments]_vars

\* C13: the snapshot file is never left truncated or partially written.
C13_SnapshotNeverPartial == file.state # "corrupt"

\* The comment_ids of a sequence of comments, entry by entry.
IdSeq(cs) == [i \in 1..Len(cs) |-> cs[i].comment_id]

\* The number of produce calls of the present fetch keyed by id.
PublishCount(id) ==
    Cardinality({i \in 1..Len(produceCalls) : produceCalls[i] = id})

C15_PublisherIndependent ==
    /\ [](/\ result.endedBy # "publishError"
          /\ EndedNormally =>
               LET st == RunFetch(remote, existing_ids, run)
               IN /\ new_comments = st.new_comments
                  /\ result.endedBy = st.ended
                  /\ page_num = st.page_num)
    /\ [][(SaveStep /\ result.endedBy \in {"noToken", "earlyStop"}) =>
            file'.comments =
               FinalComments(file, RunFetch(remote, existing_ids, run).new_comments)]_vars

\* A fetch during which every produce call raised ran to its end, returned
\* new comments as a success, and they were saved.
C15_Witness ==
    /\ fpc = "saved"
    /\ enable_kafka
    /\ produce_raises
    /\ produceCalls # <<>>
    /\ result.success
    /\ result.endedBy = "noToken"
    /\ file.state = "ok"
    /\ IdsOf(new_comments) # {}
    /\ IdsOf(new_comments) \subseteq IdsOf(file.comments)

\* C16: when videos().list reports no such video, the fetch returns a failure
\* tagged 'Video not found' without any page request, publish call or
\* comment, and the snapshot file stays as it was (or absent) until the run
\* has ended.
C16_VideoNotFound ==
    /\ [](result.endedBy = "notFound" =>
            /\ ~result.success
            /\ result.error = "Video not found"
            /\ page_num = 0
            /\ new_comments = <<>>
            /\ sendCalls = <<>>
            /\ produceCalls = <<>>
            /\ fpc \in {"fetched", "saved"})
    /\ [][(result.endedBy = "notFound" \/ result'.endedBy = "notFound")
            => file' = file]_vars

\* A video with a snapshot was reported missing, and main has gone past the
\* save with the snapshot in place.
C16_Witness ==
    /\ result.endedBy = "notFound"
    /\ fpc = "saved"
    /\ file.state = "ok"
    /\ file.comments # <<>>

\* C17: a fetch ended by a 403 on a page request returns a failure tagged
\* QuotaOrDisabled, not a success.
C17_ForbiddenIsFailure ==
    (result.endedBy = "httpError" /\ result.http = 403) =>
        (~result.success /\ result.error = "QuotaOrDisabled")

\* C18: without a shutdown request, no failure of a video's fetch or save
\* takes main out of the loop over the videos while a video is left.
C18_FailuresIsolated ==
    ~(fpc = "aborted" /\ ~shutdown_flag /\ run < MaxRuns)

\* What a caller can read off the dict a fetch returned: success, error, and
\* new_comments when it is a success (a failure dict has no such key).
Returned(res, new) ==
    [success |-> res.success, error |-> res.error,
     new_comments |-> IF res.success THEN new ELSE <<>>]

\* What a fetch over the pages that runs to completion returns.
ReturnedComplete(pages, existing, r) ==
    Returned([success |-> TRUE, error |-> ""],
             RunFetch(pages, existing, r).new_comments)

\* C19: a fetch ended by the shutdown flag returns the comments accumulated so
\* far as a success, and what it returns differs from what a fetch returns
\* that ran to completion on the pages requested so far or on any longer
\* part of the remote source.
C19_PartialIsMarked ==
    (fpc = "fetched" /\ result.endedBy = "shutdown") =>
        /\ result.success
        /\ \A k \in (IF page_num = 0 THEN 1 ELSE page_num)..Len(remote) :
              Returned(result, new_comments)
                 # ReturnedComplete(SubSeq(remote, 1, k), existing_ids, run)

\* The offsets of the well-formed messages polled so far that come after a
\* malformed one.
AfterBad ==
    {j \in 1..pos : /\ log[j].kind = "ok"
                    /\ \E i \in 1..(j - 1) : log[i].kind = "bad"}

\* C20: the poll of a malformed message moves the position and changes
\* nothing else: the loop goes on, no row and no batch entry is added, and
\* nothing is committed for it; and when the consumer closes, every
\* well-formed message polled after a malformed one has its offset committed
\* and the row its INSERT made on disk.
C20_MalformedSkipped ==
    /\ [][(cpc = "poll" /\ pos' = pos + 1 /\ log[pos + 1].kind = "bad") =>
            /\ cpc' = "poll"
            /\ running' = running
            /\ table' = table
            /\ durable' = durable
            /\ batch' = batch
            /\ committed' = committed]_vars
    /\ [](cpc = "close" =>
            \A j \in AfterBad :
               /\ committed >= j
               /\ j \in okOffsets => j \in durOffsets)

\* The consumer met a malformed message, then a well-formed one, and closes
\* with that one's row on disk and its offset committed.
C20_Witness ==
    /\ cpc = "close"
    /\ \E j \in AfterBad :
          /\ j \in durOffsets
          /\ committed >= j
          /\ \E r \in durable : r.comment_id = log[j].comment_id

\* The ids the pages requested so far hold.
RequestedIds == {Flatten(Requested)[i] : i \in 1..Len(Flatten(Requested))}

\* C25: when a fetch returns a comment whose id is already in the snapshot,
\* with the counters of the present run, the snapshot written by the run's
\* save holds that comment with the counters of the present run.
C25_CountersRefreshed ==
    [][SaveStep =>
          \A id \in RequestedIds \cap existing_ids :
             \E j \in 1..Len(file'.comments) :
                file'.comments[j] = CommentData(id, run)]_vars

\* C28: the pacing sleep never follows the last page of a fetch: an iteration
\* of the paging loop ended in the sleep exactly when another page request
\* follows it, is about to follow it, or was prevented by the shutdown flag;
\* after a sleep the remote source has a further page to request; and the
\* iteration that ended the fetch by a missing token, an early stop or an API
\* error did not sleep.
C28_PacingOnlyBetweenPages ==
    /\ Len(pacing) = page_num
    /\ \A p \in 1..Len(pacing) :
          pacing[p] <=> \/ p < page_num
                        \/ fpc = "fetch"
                        \/ result.endedBy = "shutdown"
    /\ fpc = "fetch" => page_num < Len(remote)
    /\ result.endedBy \in {"noToken", "earlyStop", "httpError", "exception"}
          => (page_num > 0 => ~pacing[page_num])

\* A fetch slept after its first page, requested another, and ended on a page
\* without a next-page token, after which it did not sleep.
C28_Witness ==
    /\ fpc = "fetched"
    /\ result.endedBy = "noToken"
    /\ page_num >= 2
    /\ pacing[1]
    /\ ~pacing[page_num]

\* How many steps main is from its exit, at most.
StepsToExit(at) ==
    CASE at = "fetch" -> 4
      [] at = "fetched" -> 3
      [] at \in {"saved", "aborted"} -> 2
      [] at = "idle" -> 1
      [] OTHER -> 0

\* The guards of the steps that take main towards its exit: the break at the
\* head of the paging loop, the save or its skipping, the end of the video
\* entry, and the exit of main.
CanStepToExit ==
    \/ fpc = "fetch" /\ ~MayGoOn(shutdown_flag)
    \/ fpc = "fetched" /\ (result.success \/ ~result.success)
    \/ fpc = "saved"
    \/ fpc \in {"idle", "aborted"}

\* C29: once the shutdown flag is set, the producer issues no further page
\* request and starts no further video: every step it takes with the flag set
\* leaves the request count and the video count alone and brings main closer
\* to its exit, it always has such a step, and the exit flushes the publisher.
C29_ShutdownStopsRequests ==
    /\ [][(shutdown_flag /\ fpc \notin {"off", "killed"}) =>
            /\ page_num' <= page_num
            /\ run' = run
            /\ StepsToExit(fpc') < StepsToExit(fpc)
            /\ (fpc' = "off" /\ enable_kafka) => flushes' = 1]_vars
    /\ []((shutdown_flag /\ fpc \notin {"off", "killed"}) => CanStepToExit)

\* The flag was set while pages were left to request: the fetch ended at the
\* head of the paging loop without requesting them.
C29_Witness ==
    /\ fpc = "fetched"
    /\ result.endedBy = "shutdown"
    /\ page_num >= 1
    /\ page_num < Len(remote)
    /\ run < MaxRuns

\* The step by which a run of main that constructed a CommentFetcher exits.
ExitStep == fpc \in {"idle", "aborted"} /\ fpc' = "off"

\* C30 as stated: every run of main that constructed a CommentFetcher has
\* flushed the publisher exactly once when it exits.
C30_FlushExactlyOnce ==
    [][ExitStep => flushes' = 1]_vars

\* C30: a run of main whose fetcher holds a producer object flushes it exactly
\* once, in the step by which it exits, whether the loop ended normally, by
\* the shutdown flag or by an exception, and makes no publish call after the
\* flush; a run whose fetcher holds none flushes nothing and publishes nothing.
C30_FlushOnceWithProducer ==
    /\ [][ExitStep => /\ flushes = 0
                      /\ flushes' = IF enable_kafka THEN 1 ELSE 0]_vars
    /\ [][flushes > 0 => produceCalls' = <<>>]_vars
    /\ [](/\ fpc # "off" => flushes = 0
          /\ flushes > 0 => produceCalls = <<>>
          /\ ~enable_kafka => produceCalls = <<>>)

\* A run with a producer object published a comment, was stopped by the
\* shutdown flag, and has exited with one flush.
C30_Witness ==
    /\ fpc = "off"
    /\ enable_kafka
    /\ shutdown_flag
    /\ flushes = 1
    /\ file.state = "ok"
    /\ Len(file.comments) > 0

\* C27: the pending batch of the consumer never holds more than batch_size
\* messages, in any reachable state, a failed storage or offset commit
\* included.
C27_BatchBounded == Len(batch) <= batch_size

\* The messages polled by the present run whose INSERT executed.
UpsertedByRun == {j \in okOffsets : j <= pos}

\* C21 as stated: when the consumer has stopped after the signal, by close or
\* otherwise, no message it upserted is left with its offset uncommitted.
C21_NothingUpsertedLeftUncommitted ==
    (cpc \in {"close", "done"} /\ ~running) => \A j \in UpsertedByRun : j <= committed

\* C21: after the signal cleared running, at whatever point of the loop, the
\* finally block opens the final commit block for a non-empty batch, which
\* commits storage before offsets; and whenever the consumer reaches its
\* close, the batch is empty and every message it upserted is on disk with
\* its offset committed.
C21_ShutdownCommitsBatch ==
    /\ [][(cpc = "finally" /\ batch # <<>> /\ cpc' # cpc) =>
             (cpc' \in {"commit", "crashed"} /\ (cpc' = "commit" => site' = "final"))]_vars
    /\ [][(site = "final" /\ committed' # committed) =>
             (durable = table /\ committed' = pos)]_vars
    /\ [](cpc = "close" =>
            /\ batch = <<>>
            /\ \A j \in UpsertedByRun : j <= committed /\ j \in durOffsets)

\* The signal came with a batch in flight, and the consumer reached its close
\* with the message of that batch on disk and its offset committed.
C21_Witness ==
    /\ cpc = "close"
    /\ ~running
    /\ ~autocommit
    /\ pos >= 1
    /\ pos < batch_size
    /\ committed = pos
    /\ pos \in durOffsets

\* The step of insert_comment whose statement executed on a table that
\* already holds a row with the comment_id of the message.
ConflictStep ==
    /\ cpc = "upsert"
    /\ Len(log') = Len(log) + 1
    /\ Len(log') \in okOffsets'
    /\ RowsOf(table, log'[Len(log')].comment_id) # {}

\* C26: on an upsert conflict the row takes like_count, reply_count,
\* updated_at and the cleaned text of the incoming message, and keeps its
\* video_id, its author and its sentiment columns.
C26_ConflictRefreshesMutableFields ==
    [][ConflictStep =>
          LET m == log'[Len(log')]
          IN \A r \in RowsOf(table, m.comment_id) :
                \E q \in RowsOf(table', m.comment_id) :
                   /\ SameEngagement(q, m)
                   /\ q.text = clean_text(m.text)
                   /\ q.video_id = r.video_id
                   /\ q.author = r.author
                   /\ SameEnrichment(q, r)]_vars

\* C22: an enrichment run started right after a run that ended without a
\* batch failure selects no row, changes no row and is over at once; and no
\* run ever selects a row that had sentiment_label and phrases both set.
C22_EnrichmentReentrant ==
    /\ [][(epc = "done" /\ ~batch_failed /\ epc' # "off") =>
             /\ comments' = <<>>
             /\ table' = table
             /\ epc' = "done"]_vars
    /\ [](\A i \in 1..Len(comments) :
             \E r \in startTable :
                /\ r.comment_id = comments[i]
                /\ (r.sentiment_label = NULL \/ r.phrases = NULL))

\* A run was repeated on a table whose rows an earlier run had enriched, one
\* of them with an empty phrase list, and selected nothing.
C22_Witness ==
    /\ epc = "done"
    /\ comments = <<>>
    /\ startTable = table
    /\ \E r \in table : r.phrases = json_dumps(<<>>)
    /\ \A r \in table : r.sentiment_label # NULL /\ r.phrases # NULL

\* The rows that had sentiment_label or phrases null when the run started.
NullAtStart == {r \in startTable : r.sentiment_label = NULL \/ r.phrases = NULL}

\* C23 as stated: the processed count of a finished run equals the number of
\* rows that had sentiment_label or phrases null at its start.
C23_ProcessedCountIsSelected ==
    epc = "done" => processed_count = Cardinality(NullAtStart)

\* C23: a run writes only to rows that had sentiment_label or phrases null at
\* its start: every other row is in the table as it was, every row of the
\* table is a row of the start or the enrichment of a selected one, and the
\* processed count of the finished run is the number of rows in the batches
\* that process_batch wrote through: at most the number of rows changed, the
\* number selected when no batch failed, and less otherwise.
C23_WritesOnlySelected ==
    /\ epc \in {"run", "done"} =>
          /\ \A r \in startTable \ NullAtStart : r \in table
          /\ \A q \in table : q \in startTable \/ \E r \in NullAtStart : q = Enriched(r)
    /\ epc = "done" =>
          /\ processed_count <= Cardinality(startTable \ table)
          /\ Cardinality(startTable \ table) <= Cardinality(NullAtStart)
          /\ ~batch_failed => processed_count = Cardinality(NullAtStart)
          /\ batch_failed => processed_count < Cardinality(NullAtStart)

\* A run on two rows, one enriched before and one not, has ended with a
\* processed count of one and the enriched row as it was.
C23_Witness ==
    /\ epc = "done"
    /\ ~batch_failed
    /\ Cardinality(startTable) = 2
    /\ Cardinality(NullAtStart) = 1
    /\ processed_count = 1
    /\ startTable \ NullAtStart \subseteq table

\* C24: a run started for a video selects only rows of that video, and every
\* row of another video is in the table as the run found it, its derived
\* columns null or not.
C24_ScopedToVideo ==
    epc \in {"run", "done"} =>
       /\ \A i \in 1..Len(comments) : VideoOf(comments[i]) = scope
       /\ \A r \in startTable : r.video_id # scope => r \in table

\* C31: in every state of the table reached through insert_comment and the
\* enrichment runs, a row has sentiment_label set exactly when it has
\* sentiment_score set and exactly when it has phrases set.
C31_DerivedFieldsTogether ==
    \A r \in table :
       /\ (r.sentiment_label = NULL) <=> (r.sentiment_score = NULL)
       /\ (r.sentiment_label = NULL) <=> (r.phrases = NULL)

\* In the middle of a run the table holds a row with the three derived
\* fields written and a row with none of them.
C31_Witness ==
    /\ epc = "run"
    /\ \E r \in table : r.sentiment_label # NULL /\ r.phrases # NULL
    /\ \E r \in table : r.sentiment_label = NULL /\ r.phrases = NULL

\* What main of sentiment_analysis.py hands to its caller: it returns without
\* a value at line 203 and falls off its end after line 303.
main_returns == NULL

\* C32: an enrichment run that finds no candidate row is not an error, writes
\* nothing to the table, and returns a processed count of zero.
C32_EmptyRunReturnsZero ==
    (epc = "done" /\ comments = <<>>) =>
       /\ table = startTable
       /\ main_returns # NULL
       /\ main_returns.processed = 0

\* C33: within one fetch_video_comments call no comment_id is appended to
\* new_comments more than once, nor published more than once, whatever the
\* pages of the remote source repeat.
C33_NoDuplicateWithinFetch ==
    /\ \A i, j \in 1..Len(new_comments) :
          new_comments[i].comment_id = new_comments[j].comment_id => i = j
    /\ \A i, j \in 1..Len(produceCalls) :
          produceCalls[i] = produceCalls[j] => i = j

\* C34: whatever a save_comments call does to the snapshot file, the comment
\* ids the file holds after it include the ids it held before.
C34_SnapshotOnlyGrows ==
    [][(fpc = "fetched" /\ result.success /\ fpc' # "fetched") =>
          ExistingIds(file) \subseteq ExistingIds(file')]_vars

\* The ids the remote source holds for the present fetch.
RemoteIds == {Flatten(remote)[i] : i \in 1..Len(Flatten(remote))}

\* C35: incremental sync converges. A run repeats itself on an unchanged
\* remote source once it adds nothing, so the runs converge exactly when a
\* run that ends without error or shutdown and finds no new comment, on a
\* snapshot holding only comments of the remote source, leaves a snapshot
\* that holds every remote comment.
C35_SyncConverges ==
    (/\ fpc = "saved"
     /\ result.success
     /\ result.endedBy \in {"noToken", "earlyStop"}
     /\ new_comments = <<>>
     /\ file.state = "ok"
     /\ IdsOf(file.comments) \subseteq RemoteIds)
        => RemoteIds \subseteq IdsOf(file.comments)

\* C36: when main is through with a video, every comment published during
\* the fetch of that video is in the snapshot of the video.
C36_PublishedIsInSnapshot ==
    fpc = "saved" =>
       \A i \in 1..Len(produceCalls) : produceCalls[i] \in ExistingIds(file)

\* ------------------------------------- the run after an unpublished save
\* The snapshots an earlier run wrote whose publish attempts all failed or
\* were dropped: some comments, sorted, none of them in raw_comments.
UnpublishedSnapshots ==
    {[state |-> "ok",
      comments |-> SortByPublished(cs)] :
        cs \in {c \in SeqsUpTo({CommentData(id, 1) : id \in CommentIds},
                                Cardinality(CommentIds)) :
                   c # <<>> /\ NoDupIds(c)}}

\* main is started once more on such a snapshot; the topic is empty.
InitRepublish ==
    /\ ConsumerDown
    /\ file \in UnpublishedSnapshots
    /\ remote = <<<<>>>>
    /\ run = MaxRuns - 1
    /\ fpc = "off"
    /\ existing_ids = {}
    /\ is_incremental = FALSE
    /\ new_comments = <<>>
    /\ page_num = 0
    /\ consecutive_empty_pages = 0
    /\ shutdown_flag = FALSE
    /\ result = NoResult
    /\ newPerPage = <<>>
    /\ sendCalls = <<>>
    /\ enable_kafka = FALSE
    /\ produce_raises = FALSE
    /\ produceCalls = <<>>
    /\ pacing = <<>>
    /\ flushes = 0

SpecRepublish == InitRepublish /\ [][NextProducer]_vars

\* C37: a comment of the snapshot that is not in raw_comments is published
\* again by a later run: when a run with a working publisher has fetched the
\* pages that hold it, the comment is among the keys the run published.
C37_UnpublishedIsRepublished ==
    (/\ fpc = "saved"
     /\ result.success
     /\ enable_kafka
     /\ ~produce_raises)
        => \A id \in RequestedIds \cap existing_ids :
              \E i \in 1..Len(produceCalls) : produceCalls[i] = id

====
